---- MODULE Spec2Model ----
(***************************************************************************)
(* A model of pytermgui's widget core (src/pytermgui/widgets/base.py):    *)
(* MouseTarget, Widget, Container and Label.  Widgets live in a heap W    *)
(* indexed by identity; every method is an operator from a heap to a      *)
(* result record holding the new heap, the return value and the error     *)
(* raised, if any.                                                        *)
(***************************************************************************)
EXTENDS Integers, Sequences, FiniteSets, TLC

VARIABLES W, last, pre, terminal, _id_manager

vars == <<W, last, pre, terminal, _id_manager>>

\* ------------------------------------------------------------------ bounds

\* Most widgets constructed in a run of the layout specification (the root
\* container is widget 1 of the heap W).
MaxLayoutWidgets == 3

\* ------------------------------------------------------------ text helpers

\* A text is a sequence of cells; the cell "^" stands for a non-printing
\* style sequence, every other cell occupies one terminal column.
ESC == "^"

RECURSIVE real_length(_)
\* helpers.real_length: the display width of a text.
real_length(text) ==
    IF text = <<>> THEN 0
    ELSE (IF Head(text) = ESC THEN 0 ELSE 1) + real_length(Tail(text))

RECURSIVE Rep(_, _)
\* Python's `n * text`: the empty text when n <= 0.
Rep(text, n) == IF n <= 0 THEN <<>> ELSE text \o Rep(text, n - 1)

RECURSIVE TakeCells(_, _)
\* The longest prefix of text whose display width is at most limit.
TakeCells(text, limit) ==
    IF text = <<>> THEN <<>>
    ELSE IF Head(text) = ESC THEN <<ESC>> \o TakeCells(Tail(text), limit)
    ELSE IF limit = 0 THEN <<>>
    ELSE <<Head(text)>> \o TakeCells(Tail(text), limit - 1)

RECURSIVE break_line(_, _)
\* helpers.break_line for limit >= 1: the text cut into successive lines of
\* display width at most limit; the empty text yields no line.
break_line(text, limit) ==
    IF text = <<>> THEN <<>>
    ELSE LET first == TakeCells(text, limit)
         IN  <<first>> \o break_line(SubSeq(text, Len(first) + 1, Len(text)), limit)

\* ------------------------------------------------------------------ values

\* Python's None for an optional integer, and an integer held by one.
None == <<>>
Some(i) == <<i>>
Val(opt) == opt[1]

\* terminal.origin
origin == <<0, 0>>

\* terminal.size: the size the terminal has now, read where the code reads it.
terminal_size == terminal.size

\* The terminal as the program starts: its size, and whether a change of size
\* has still to be notified to the subscribers of terminal.RESIZE.
NewTerminal == [size |-> <<12, 6>>, resized |-> FALSE]

\* The three size policies, and "OTHER" for any other value the attribute
\* size_policy is given (it is set from the constructor's attrs unchecked).
SizePolicy == {"FILL", "STATIC", "RELATIVE", "OTHER"}
WidgetAlignment == {"LEFT", "CENTER", "RIGHT"}
MouseAction == {"LEFT_CLICK", "RELEASE", "HOVER"}

\* Container.keys, the key ENTER, and a key outside every set.
keys_next == {"DOWN", "CTRL_N", "j"}
keys_previous == {"UP", "CTRL_P", "k"}
ENTER == "ENTER"

\* Container.chars: border is <<left, top, right, bottom>>, corner is
\* <<top left, top right, bottom right, bottom left>>.
DefaultBorder == << <<"|", " ">>, <<"-">>, <<" ", "|">>, <<"-">> >>
DefaultCorner == << <<>>, <<>>, <<>>, <<>> >>

\* Widget.__init__ (and the fields Container.__init__ and Label.__init__ add);
\* kind "None" marks an identity not constructed yet.
NewWidget ==
    [kind |-> "None", width |-> 1, height |-> 1, pos |-> origin, depth |-> 0,
     targets |-> <<>>, mouse_targets |-> <<>>, parent |-> 0,
     selected_index |-> None, _selectables_length |-> 0,
     size_policy |-> "FILL", parent_align |-> "LEFT", relative_width |-> 1,
     _widgets |-> <<>>, _drag_target |-> 0, _has_printed |-> FALSE,
     allow_fullscreen |-> TRUE,
     border |-> DefaultBorder, corner |-> DefaultCorner,
     value |-> <<>>, padding |-> 0,
     _centered_axis |-> None, _prev_screen |-> <<0, 0>>,
     _id |-> None, _bindings |-> {}, is_bindable |-> FALSE]

\* Container.__init__ with the attributes width, height and the border chars.
NewContainer(attrs) ==
    [NewWidget EXCEPT !.kind = "Container", !.width = attrs.width,
                      !.height = attrs.height, !.border = attrs.border,
                      !.size_policy = attrs.size_policy,
                      !.parent_align = attrs.parent_align]

\* Label.__init__ with the attributes size_policy, parent_align and
\* _selectables_length; width is the display width of padding and value.
NewLabel(attrs) ==
    [NewWidget EXCEPT !.kind = "Label", !.value = attrs.value,
                      !.padding = attrs.padding,
                      !.width = real_length(attrs.value) + attrs.padding,
                      !.size_policy = attrs.size_policy,
                      !.parent_align = attrs.parent_align,
                      !._selectables_length = attrs._selectables_length]

IsContainer(H, w) == H[w].kind = "Container"

\* --------------------------------------------------------------- MouseTarget

\* A MouseTarget object is H[ref.w].targets[ref.j]; ref.w is its parent.
Target(H, ref) == H[ref.w].targets[ref.j]

\* MouseTarget.adjust
adjust(H, ref) ==
    LET p == H[ref.w]
        t == Target(H, ref)
    IN  [H EXCEPT ![ref.w].targets[ref.j] =
            [t EXCEPT !.start = <<p.pos[1] + t.left - 1, p.pos[2] + 1 + t.top>>,
                      !.end = <<p.pos[1] + p.width - 1 - t.right,
                                p.pos[2] + t.top + t.height>>]]

\* contains leaving the column and the row of the end corner out.
contains_exclusive_end(H, ref, pos) ==
    LET t == Target(H, ref)
    IN  /\ t.start[1] <= pos[1] /\ pos[1] < t.end[1]
        /\ t.start[2] <= pos[2] /\ pos[2] < t.end[2]

\* MouseTarget.contains
contains(H, ref, pos) ==
    LET t == Target(H, ref)
    IN  /\ t.start[1] <= pos[1] /\ pos[1] <= t.end[1]
        /\ t.start[2] <= pos[2] /\ pos[2] <= t.end[2]

\* The dataclass equality of two MouseTarget objects (all fields, the parent
\* by identity), as used by `in` and list.index.
TargetEq(H, a, b) == a.w = b.w /\ Target(H, a) = Target(H, b)

\* Widget.define_mouse_target
define_mouse_target(H, w, left, right, height, top, onclick) ==
    LET ref == [w |-> w, j |-> Len(H[w].targets) + 1]
        obj == [left |-> left, right |-> right, height |-> height, top |-> top,
                start |-> <<0, 0>>, end |-> <<0, 0>>, onclick |-> onclick]
        H1  == [H EXCEPT ![w].targets = Append(@, obj)]
        H2  == adjust(H1, ref)
    IN  [H2 EXCEPT ![w].mouse_targets = <<ref>> \o @]

\* Widget.get_target: the first target of the list that contains pos, as a
\* sequence of at most one reference.
get_target(H, w, pos) ==
    LET hits == {i \in 1 .. Len(H[w].mouse_targets) :
                    contains(H, H[w].mouse_targets[i], pos)}
    IN  IF hits = {} THEN <<>>
        ELSE <<H[w].mouse_targets[CHOOSE i \in hits : \A k \in hits : i <= k]>>

\* ------------------------------------------------------------------- styles

\* The styles MARKUP (border, corner, value) and FOREGROUND (fill) of
\* widgets/styles.py on texts that carry no markup tag: the text itself.
style(text) == text

\* ---------------------------------------------------------------- Container

\* Results of a method call: the heap it leaves, what it returns and the
\* error it raises ("" when it returns).
Ok(H) == [H |-> H, err |-> "", culprit |-> 0]
Raise(H, err, w) == [H |-> H, err |-> err, culprit |-> w]

\* Container.sidelength
sidelength(H, c) == real_length(style(H[c].border[1]) \o style(H[c].border[3]))

\* The aligner methods of Container._get_aligners applied to text; they read
\* self.width when they are called.
_align_left(H, c, text) ==
    LET left == style(H[c].border[1])
        right == style(H[c].border[3])
        padding == H[c].width - real_length(left \o right) - real_length(text)
    IN  left \o text \o Rep(style(<<" ">>), padding) \o right

_align_center(H, c, text) ==
    LET left == style(H[c].border[1])
        right == style(H[c].border[3])
        total == H[c].width - real_length(left \o right) - real_length(text)
        padding == total \div 2
        offset == total % 2
    IN  left \o Rep(style(<<" ">>), padding + offset) \o text
             \o Rep(style(<<" ">>), padding) \o right

_align_right(H, c, text) ==
    LET left == style(H[c].border[1])
        right == style(H[c].border[3])
        padding == H[c].width - real_length(left \o right) - real_length(text)
    IN  left \o Rep(style(<<" ">>), padding) \o text \o right

align(H, c, aligner, text) ==
    CASE aligner = "CENTER" -> _align_center(H, c, text)
      [] aligner = "RIGHT" -> _align_right(H, c, text)
      [] OTHER -> _align_left(H, c, text)

\* Container._get_aligners: the aligner and the horizontal offset of widget.
_get_aligners(H, c, widget) ==
    LET left == style(H[c].border[1])
        right == style(H[c].border[3])
        total == H[c].width - real_length(left \o right) - H[widget].width
    IN  CASE H[widget].parent_align = "CENTER" ->
               [align |-> "CENTER",
                offset |-> real_length(left) + (total \div 2) + (total % 2)]
          [] H[widget].parent_align = "RIGHT" ->
               [align |-> "RIGHT",
                offset |-> H[c].width - real_length(left) - H[widget].width]
          [] OTHER -> [align |-> "LEFT", offset |-> real_length(left)]

\* _update_width raising for a too wide child whatever its size policy.
_update_width_any_policy(H, c, widget) ==
    LET available == H[c].width - sidelength(H, c)
                       - (IF IsContainer(H, widget) THEN 0 ELSE 1)
    IN  CASE H[widget].size_policy = "FILL" ->
               Ok([H EXCEPT ![widget].width = available])
          [] H[widget].size_policy = "RELATIVE" ->
               Ok([H EXCEPT ![widget].width = H[widget].relative_width * available])
          [] H[widget].width > available -> Raise(H, "WidthExceededError", widget)
          [] OTHER -> Ok(H)

\* _update_width leaving a too wide child that is not STATIC as wide as it is.
_update_width_unclamped(H, c, widget) ==
    LET available == H[c].width - sidelength(H, c)
                       - (IF IsContainer(H, widget) THEN 0 ELSE 1)
    IN  CASE H[widget].size_policy = "FILL" ->
               Ok([H EXCEPT ![widget].width = available])
          [] H[widget].size_policy = "RELATIVE" ->
               Ok([H EXCEPT ![widget].width = H[widget].relative_width * available])
          [] H[widget].width > available ->
               IF H[widget].size_policy = "STATIC"
               THEN Raise(H, "WidthExceededError", widget)
               ELSE Ok(H)
          [] OTHER -> Ok(H)

\* Container._update_width
_update_width(H, c, widget) ==
    LET available == H[c].width - sidelength(H, c)
                       - (IF IsContainer(H, widget) THEN 0 ELSE 1)
    IN  CASE H[widget].size_policy = "FILL" ->
               Ok([H EXCEPT ![widget].width = available])
          [] H[widget].size_policy = "RELATIVE" ->
               Ok([H EXCEPT ![widget].width = H[widget].relative_width * available])
          [] H[widget].width > available ->
               IF H[widget].size_policy = "STATIC"
               THEN Raise(H, "WidthExceededError", widget)
               ELSE Ok([H EXCEPT ![widget].width = available])
          [] OTHER -> Ok(H)

\* Label.get_lines; break_line is given no meaning for a limit below 1, and
\* the call is then reported as "Undefined".
Label_get_lines(H, w) ==
    LET text == style(Rep(<<" ">>, H[w].padding) \o H[w].value)
        broken == break_line(text, H[w].width)
    IN  IF H[w].width < 1 THEN Raise(H, "Undefined", w) @@ [lines |-> <<>>]
        ELSE Ok(H) @@ [lines |-> IF broken = <<>> THEN << <<>> >> ELSE broken]

\* _get_border of Container.get_lines
_get_border(H, c, left, char, right) ==
    left \o Rep(char, H[c].width - real_length(left \o right)) \o right

RECURSIVE AdjustAll(_, _)
\* `for target in self.mouse_targets: target.adjust()`
AdjustAll(H, refs) ==
    IF refs = <<>> THEN H ELSE AdjustAll(adjust(H, Head(refs)), Tail(refs))

\* The first index of lines whose aligned form has not the container's
\* width, 0 when there is none.
BadLine(H, c, aligner, lines) ==
    LET bad == {i \in 1 .. Len(lines) :
                   real_length(align(H, c, aligner, lines[i])) # H[c].width}
    IN  IF bad = {} THEN 0 ELSE CHOOSE i \in bad : \A k \in bad : i <= k

RECURSIVE Container_get_lines(_, _)
RECURSIVE LayoutWidgets(_, _, _, _, _)

\* widget.get_lines() by the widget's type.
get_lines(H, w) ==
    IF IsContainer(H, w) THEN Container_get_lines(H, w) ELSE Label_get_lines(H, w)

\* The end of the loop body of Container.get_lines for child i, whose
\* get_lines() gave r: every aligned line has the container's width or the
\* pass fails; the lines and the child's mouse targets are gathered.
get_lines_gather(r, c, i, lines, aligner) ==
    LET widget == r.H[c]._widgets[i]
    IN  IF r.err # "" THEN r @@ [align |-> aligner]
        ELSE IF BadLine(r.H, c, aligner, r.lines) # 0
             THEN Raise(r.H, "LineLengthError", widget)
                    @@ [lines |-> <<>>, align |-> aligner]
        ELSE LayoutWidgets(
               [r.H EXCEPT ![c].mouse_targets = @ \o r.H[widget].mouse_targets],
               c, i + 1,
               lines \o [k \in 1 .. Len(r.lines) |-> align(r.H, c, aligner, r.lines[k])],
               aligner)

\* The middle of the loop body for child i: _update_width gave uw, the
\* aligner and offset are al; the child is positioned and asked its lines.
get_lines_position(uw, al, c, i, lines) ==
    LET widget == uw.H[c]._widgets[i]
    IN  IF uw.err # "" THEN uw @@ [lines |-> <<>>, align |-> al.align]
        ELSE get_lines_gather(
               get_lines([uw.H EXCEPT ![widget].pos =
                            <<uw.H[c].pos[1] + al.offset,
                              uw.H[c].pos[2] + Len(lines)
                                + (IF IsContainer(uw.H, widget) THEN 1 ELSE 0)>>],
                         widget),
               c, i, lines, al.align)

\* The loop body for child i once a width of 0 was replaced: the aligner is
\* computed, then the width policy applied.
get_lines_widget(H1, c, i, lines) ==
    get_lines_position(_update_width(H1, c, H1[c]._widgets[i]),
                       _get_aligners(H1, c, H1[c]._widgets[i]), c, i, lines)

\* The loop `for widget in self._widgets` of Container.get_lines from child i
\* on, with the lines gathered so far and the aligner last computed.
LayoutWidgets(H, c, i, lines, aligner) ==
    IF i > Len(H[c]._widgets)
    THEN Ok(H) @@ [lines |-> lines, align |-> aligner]
    ELSE get_lines_widget(
           IF H[c].width = 0 THEN [H EXCEPT ![c].width = H[H[c]._widgets[i]].width] ELSE H,
           c, i, lines)

\* "Set root widget full screen if possible"
get_lines_fullscreen(H0, c) ==
    IF /\ H0[c]._has_printed
       /\ H0[c].parent = 0
       /\ H0[c].allow_fullscreen
       /\ H0[c].size_policy = "FILL"
    THEN [H0 EXCEPT ![c].pos = origin,
                    ![c].width = terminal_size[1],
                    ![c].height = terminal_size[2]]
    ELSE H0

\* get_lines_cap returning without the loop that adjusts the mouse targets.
get_lines_cap_unadjusted(L, c, padded, aligner) ==
    LET top == style(L[c].border[2])
        bottom == style(L[c].border[4])
    IN  Ok([L EXCEPT ![c].height = Len(padded) - 2])
          @@ [lines |->
                (IF real_length(top) # 0
                 THEN <<_get_border(L, c, style(L[c].corner[1]), top,
                                    style(L[c].corner[2]))>>
                 ELSE <<>>)
                \o padded
                \o (IF real_length(bottom) # 0
                    THEN <<_get_border(L, c, style(L[c].corner[4]), bottom,
                                       style(L[c].corner[3]))>>
                    ELSE <<>>),
              align |-> aligner]

\* "Add capping lines" and the return of Container.get_lines: the height is
\* taken from the padded lines, then the border rows are added and the
\* mouse targets adjusted.
get_lines_cap(L, c, padded, aligner) ==
    LET top == style(L[c].border[2])
        bottom == style(L[c].border[4])
    IN  Ok(AdjustAll([L EXCEPT ![c].height = Len(padded) - 2], L[c].mouse_targets))
          @@ [lines |->
                (IF real_length(top) # 0
                 THEN <<_get_border(L, c, style(L[c].corner[1]), top,
                                    style(L[c].corner[2]))>>
                 ELSE <<>>)
                \o padded
                \o (IF real_length(bottom) # 0
                    THEN <<_get_border(L, c, style(L[c].corner[4]), bottom,
                                       style(L[c].corner[3]))>>
                    ELSE <<>>),
              align |-> aligner]

\* "Update height": the lines the loop gave are padded up to self.height
\* rows with the aligner last computed.
get_lines_pad(loop, c) ==
    IF loop.err # "" THEN [loop EXCEPT !.lines = <<>>]
    ELSE get_lines_cap(loop.H, c,
                       loop.lines \o Rep(<<align(loop.H, c, loop.align, <<>>)>>,
                                         loop.H[c].height - Len(loop.lines)),
                       loop.align)

\* The loop of Container.get_lines, after the aligner for self was taken.
get_lines_loop(H1, c) ==
    get_lines_pad(LayoutWidgets(H1, c, 1, <<>>, _get_aligners(H1, c, c).align), c)

\* Container.get_lines
Container_get_lines(H, c) ==
    get_lines_loop(get_lines_fullscreen([H EXCEPT ![c].mouse_targets = <<>>], c), c)

\* ---------------------------------------------------------------- selection

RECURSIVE selectables(_, _)
RECURSIVE ChildSelectables(_, _, _)

\* widget.selectables by the widget's type: Widget.selectables is the single
\* pair (self, 0), Container.selectables the flattened list.
widget_selectables(H, w) ==
    IF IsContainer(H, w) THEN selectables(H, w) ELSE <<[widget |-> w, inner |-> 0]>>

\* selectables_length: Widget's attribute, Container's len(self.selectables).
selectables_length(H, w) ==
    IF IsContainer(H, w) THEN Len(selectables(H, w)) ELSE H[w]._selectables_length

\* Widget.is_selectable
is_selectable(H, w) == selectables_length(H, w) # 0

\* The loop of Container.selectables over the children from position i on.
ChildSelectables(H, c, i) ==
    IF i > Len(H[c]._widgets) THEN <<>>
    ELSE LET widget == H[c]._widgets[i]
             inner == widget_selectables(H, widget)
         IN  (IF is_selectable(H, widget)
              THEN [k \in 1 .. Len(inner) |->
                      [widget |-> inner[k].widget, inner |-> k - 1]]
              ELSE <<>>)
             \o ChildSelectables(H, c, i + 1)

\* Container.selectables
selectables(H, c) == ChildSelectables(H, c, 1)

\* Python's list[index]: an index in -len .. len - 1 names an element,
\* counting from the end when negative.
InRange(seq, index) == -Len(seq) <= index /\ index < Len(seq)
Item(seq, index) == IF index < 0 THEN seq[Len(seq) + index + 1] ELSE seq[index + 1]

\* Container.selected: the selected widget, 0 for None, and -1 when the list
\* lookup raises IndexError.
selected(H, c) ==
    IF H[c].selected_index = None THEN 0
    ELSE IF Val(H[c].selected_index) >= Len(selectables(H, c)) THEN 0
    ELSE IF ~InRange(selectables(H, c), Val(H[c].selected_index)) THEN -1
    ELSE Item(selectables(H, c), Val(H[c].selected_index)).widget

\* Widget.select clamping to selectables_length instead of the last index.
Widget_select_off_by_one(H, w, index) ==
    IF ~is_selectable(H, w) THEN Raise(H, "TypeError", w)
    ELSE Ok([H EXCEPT ![w].selected_index =
                IF index = None THEN None
                ELSE LET low == IF 0 > Val(index) THEN 0 ELSE Val(index)
                         high == selectables_length(H, w)
                     IN  Some(IF low < high THEN low ELSE high)])

\* Widget.select
Widget_select(H, w, index) ==
    IF ~is_selectable(H, w) THEN Raise(H, "TypeError", w)
    ELSE Ok([H EXCEPT ![w].selected_index =
                IF index = None THEN None
                ELSE LET low == IF 0 > Val(index) THEN 0 ELSE Val(index)
                         high == selectables_length(H, w) - 1
                     IN  Some(IF low < high THEN low ELSE high)])

RECURSIVE Container_select(_, _, _)
RECURSIVE UnselectFrom(_, _, _)

\* widget.select(index) by the widget's type.
select(H, w, index) ==
    IF IsContainer(H, w) THEN Container_select(H, w, index) ELSE Widget_select(H, w, index)

\* The loop "Unselect all sub-elements" after other.select(None) gave r for
\* child i.
UnselectNext(r, c, i) ==
    IF r.err # "" THEN r ELSE UnselectFrom(r.H, c, i + 1)

\* The loop "Unselect all sub-elements" of Container.select from child i on.
UnselectFrom(H, c, i) ==
    IF i > Len(H[c]._widgets) THEN Ok(H)
    ELSE UnselectNext(IF selectables_length(H, H[c]._widgets[i]) > 0
                      THEN select(H, H[c]._widgets[i], None)
                      ELSE Ok(H),
                      c, i)

\* The end of Container.select: widget.select(inner_index) gave sub, and the
\* index is stored.
select_store(sub, c, index) ==
    IF sub.err # "" THEN sub ELSE Ok([sub.H EXCEPT ![c].selected_index = index])

\* Container.select for an integer index, list being self.selectables; the
\* comparison `index >= len(self.selectables) is None` is False for every
\* index, so the list lookup decides.
select_lookup(G, c, index, list) ==
    IF (Val(index) >= Len(list)) /\ FALSE THEN Raise(G, "IndexError", c)
    ELSE IF ~InRange(list, Val(index)) THEN Raise(G, "IndexError", c)
    ELSE select_store(select(G, Item(list, Val(index)).widget,
                             Some(Item(list, Val(index)).inner)),
                      c, index)

\* Container.select after the loop "Unselect all sub-elements" gave un.
select_unselected(un, c, index) ==
    IF un.err # "" THEN un
    ELSE IF index = None THEN Ok([un.H EXCEPT ![c].selected_index = None])
    ELSE select_lookup(un.H, c, index, selectables(un.H, c))

\* Container.select
Container_select(H, c, index) == select_unselected(UnselectFrom(H, c, 1), c, index)

\* ------------------------------------------------------------------ keys

\* Results of the event handlers: the heap, the value returned, the error
\* raised, the callbacks invoked as (target, caller) pairs in order, and the
\* widgets a container forwarded the mouse event to, outermost first.
Handled(H, ret, clicks, forwarded) ==
    [H |-> H, ret |-> ret, err |-> "", clicks |-> clicks, forwarded |-> forwarded]
Failed(H, err, clicks, forwarded) ==
    [H |-> H, ret |-> FALSE, err |-> err, clicks |-> clicks, forwarded |-> forwarded]

\* MouseTarget.click: the callback invocations it makes.
click(H, ref, caller) ==
    IF Target(H, ref).onclick = 0 THEN <<>>
    ELSE <<[target |-> ref, caller |-> caller]>>

\* Widget.handle_key: the base widget handles no key.
Widget_handle_key(H, w, key) == FALSE

\* The confirm key of Container.handle_key, s being self.selected: ENTER
\* clicks the mouse target of the selected widget that its own
\* selected_index names.
_enter_selected(G, c, key, s) ==
    IF key = ENTER /\ s # 0 /\ G[s].selected_index # None
    THEN IF InRange(G[s].mouse_targets, Val(G[s].selected_index))
         THEN Handled(G, TRUE,
                      click(G, Item(G[s].mouse_targets, Val(G[s].selected_index)), c),
                      <<>>)
         ELSE Failed(G, "IndexError", <<>>, <<>>)
    ELSE Handled(G, FALSE, <<>>, <<>>)

_enter(G, c, key) == _enter_selected(G, c, key, selected(G, c))

\* `self.select(...)` gave r, then `handled = True` and `return True`.
_navigated(r) ==
    IF r.err # "" THEN Failed(r.H, r.err, <<>>, <<>>) ELSE Handled(r.H, TRUE, <<>>, <<>>)

\* The navigation below with the last index compared against idx instead of
\* idx + 1.
_navigate_past_the_end(H1, c, key) ==
    LET idx == Val(H1[c].selected_index)
    IN  IF key \in keys_previous
        THEN IF idx = 0 THEN Handled(H1, FALSE, <<>>, <<>>)
             ELSE _navigated(Container_select(H1, c, Some(idx - 1)))
        ELSE IF key \in keys_next
        THEN IF idx = Len(selectables(H1, c)) THEN Handled(H1, FALSE, <<>>, <<>>)
             ELSE _navigated(Container_select(H1, c, Some(idx + 1)))
        ELSE _enter(H1, c, key)

\* The navigation of Container.handle_key once selected_index is an integer:
\* a previous key at index 0 and a next key at the last index are unhandled,
\* any other moves the selection by one.
_navigate(H1, c, key) ==
    LET idx == Val(H1[c].selected_index)
    IN  IF key \in keys_previous
        THEN IF idx = 0 THEN Handled(H1, FALSE, <<>>, <<>>)
             ELSE _navigated(Container_select(H1, c, Some(idx - 1)))
        ELSE IF key \in keys_next
        THEN IF idx + 1 = Len(selectables(H1, c)) THEN Handled(H1, FALSE, <<>>, <<>>)
             ELSE _navigated(Container_select(H1, c, Some(idx + 1)))
        ELSE _enter(H1, c, key)

\* Container.handle_key after `if self.selected_index is None: self.select(0)`
\* gave first.
handle_key_navigate(first, c, key) ==
    IF first.err # "" THEN Failed(first.H, first.err, <<>>, <<>>)
    ELSE _navigate(first.H, c, key)

\* Container.handle_key, sel0 being self.selected: the selected widget is
\* offered the key, then the navigation keys and the confirm key are tried.
handle_key_selected(H, c, key, sel0) ==
    IF sel0 = -1 THEN Failed(H, "IndexError", <<>>, <<>>)
    ELSE IF sel0 # 0 /\ Widget_handle_key(H, sel0, key) THEN Handled(H, TRUE, <<>>, <<>>)
    ELSE IF ~(selectables_length(H, c) > 1 /\ key \in (keys_next \cup keys_previous))
         THEN _enter(H, c, key)
    ELSE handle_key_navigate(IF H[c].selected_index = None
                             THEN Container_select(H, c, Some(0))
                             ELSE Ok(H),
                             c, key)

\* Container.handle_key; self.selected raises IndexError for an index below
\* -len(selectables), reported by selected() as -1.
Container_handle_key(H, c, key) == handle_key_selected(H, c, key, selected(H, c))

\* ------------------------------------------------------------------ mouse

\* Widget.handle_mouse; target is a sequence of at most one reference.
Widget_handle_mouse(H, w, event, target) ==
    LET t == IF target # <<>> THEN target ELSE get_target(H, w, event.pos)
    IN  IF event.action = "LEFT_CLICK" /\ t # <<>>
        THEN Handled(H, TRUE, click(H, t[1], w), <<>>)
        ELSE Handled(H, FALSE, <<>>, <<>>)

\* The truth value of a widget reference: None is false, and so is a
\* Container without children (it defines __len__).
Truthy(H, w) == w # 0 /\ (IsContainer(H, w) => Len(H[w]._widgets) > 0)

\* _get_widget of Container.handle_mouse: the first child whose mouse_targets
\* holds a target equal to target, 0 for None.
_get_widget(H, c, ref) ==
    LET owners == {i \in 1 .. Len(H[c]._widgets) :
                     \E k \in 1 .. Len(H[H[c]._widgets[i]].mouse_targets) :
                        TargetEq(H, H[H[c]._widgets[i]].mouse_targets[k], ref)}
    IN  IF owners = {} THEN 0
        ELSE H[c]._widgets[CHOOSE i \in owners : \A k \in owners : i <= k]

\* list.index(target) on self.mouse_targets, counted from 0; -1 when absent.
IndexOf(H, refs, ref) ==
    LET eq == {i \in 1 .. Len(refs) : TargetEq(H, refs[i], ref)}
    IN  IF eq = {} THEN -1 ELSE (CHOOSE i \in eq : \A k \in eq : i <= k) - 1

RECURSIVE Container_handle_mouse(_, _, _, _)

\* widget.handle_mouse(event, target) by the widget's type.
handle_mouse(H, w, event, target) ==
    IF IsContainer(H, w) THEN Container_handle_mouse(H, w, event, target)
    ELSE Widget_handle_mouse(H, w, event, target)

\* The end of Container.handle_mouse: self.select(...) gave sel.
handle_mouse_selected(sel, sub, fwd) ==
    IF sel.err # "" THEN Failed(sel.H, sel.err, sub.clicks, fwd)
    ELSE Handled(sel.H, TRUE, sub.clicks, fwd)

\* `self.select(self.mouse_targets.index(target))`, index being the result
\* of list.index.
handle_mouse_select(sub, c, index, fwd) ==
    IF index = -1 THEN Failed(sub.H, "ValueError", sub.clicks, fwd)
    ELSE handle_mouse_selected(Container_select(sub.H, c, Some(index)), sub, fwd)

\* Container.handle_mouse after target_widget.handle_mouse(event, target)
\* gave sub; fwd lists the widgets the event was forwarded to.
handle_mouse_handled(sub, c, t, fwd) ==
    IF sub.err # "" THEN [sub EXCEPT !.forwarded = fwd]
    ELSE IF ~sub.ret THEN Handled(sub.H, FALSE, sub.clicks, fwd)
    ELSE handle_mouse_select(sub, c, IndexOf(sub.H, sub.H[c].mouse_targets, t[1]), fwd)

\* The forwarding of Container.handle_mouse: sub is the result of
\* target_widget.handle_mouse(event, target).
handle_mouse_forward(sub, c, t, target_widget) ==
    handle_mouse_handled(sub, c, t, <<target_widget>> \o sub.forwarded)

\* Container.handle_mouse once target_widget is known: the drag target is
\* set by a LEFT_CLICK and cleared by a RELEASE.
handle_mouse_widget(H, c, event, t, target_widget) ==
    LET H1 == CASE event.action = "LEFT_CLICK" -> [H EXCEPT ![c]._drag_target = target_widget]
                [] event.action = "RELEASE" -> [H EXCEPT ![c]._drag_target = 0]
                [] OTHER -> H
    IN  IF target_widget = 0 THEN Handled(H1, FALSE, <<>>, <<>>)
        ELSE handle_mouse_forward(handle_mouse(H1, target_widget, event, t),
                                  c, t, target_widget)

\* Container.handle_mouse once the target t is known (a sequence of at most
\* one reference).
handle_mouse_target(H, c, event, t) ==
    IF t = <<>> THEN Handled(H, FALSE, <<>>, <<>>)
    ELSE handle_mouse_widget(H, c, event, t,
                             IF Truthy(H, H[c]._drag_target) THEN H[c]._drag_target
                             ELSE _get_widget(H, c, t[1]))

\* Container.handle_mouse
Container_handle_mouse(H, c, event, target) ==
    handle_mouse_target(H, c, event,
                        IF target # <<>> THEN target ELSE get_target(H, c, event.pos))

\* ------------------------------------------------------------- composition

RECURSIVE set_recursive_depth(_, _, _)
RECURSIVE DepthFrom(_, _, _, _)

\* The loop of Container.set_recursive_depth over the children from i on.
DepthFrom(H, c, i, value) ==
    IF i > Len(H[c]._widgets) THEN H
    ELSE LET widget == H[c]._widgets[i]
         IN  DepthFrom(IF IsContainer(H, widget)
                       THEN set_recursive_depth(H, widget, value + 1)
                       ELSE [H EXCEPT ![widget].depth = value],
                       c, i + 1, value)

\* Container.set_recursive_depth
set_recursive_depth(H, c, value) ==
    DepthFrom([H EXCEPT ![c].depth = value], c, 1, value)

\* The end of Container._add_widget, other.get_lines() having given own:
\* the parent is set, the height grows, and self.get_lines() runs.
add_widget_lines(own, c, other) ==
    IF own.err # "" THEN own
    ELSE Container_get_lines([own.H EXCEPT ![other].parent = c,
                                           ![c].height = @ + own.H[other].height],
                             c)

\* Container._add_widget with run_get_lines True, other being a Widget.
_add_widget(H, c, other) ==
    LET H1 == [H EXCEPT ![c]._widgets = Append(@, other)]
    IN  add_widget_lines(
          get_lines(IF IsContainer(H1, other)
                    THEN set_recursive_depth(H1, other, H1[c].depth + 2)
                    ELSE [H1 EXCEPT ![other].depth = H1[c].depth + 1],
                    other),
          c, other)

\* The setter Widget.static_width
static_width(H, w, value) ==
    [H EXCEPT ![w].width = value, ![w].size_policy = "STATIC"]

\* ----------------------------------------------------------------- children

RECURSIVE set_widgets_from(_, _, _)

\* The loop of Container.set_widgets after self._add_widget(widget) gave r
\* for the first widget of new.
set_widgets_next(r, c, new) ==
    IF r.err # "" THEN Raise(r.H, r.err, r.culprit)
    ELSE set_widgets_from(r.H, c, Tail(new))

\* The loop `for widget in new: self._add_widget(widget)`.
set_widgets_from(H, c, new) ==
    IF new = <<>> THEN Ok(H)
    ELSE set_widgets_next(_add_widget(H, c, Head(new)), c, new)

\* Container.set_widgets
set_widgets(H, c, new) == set_widgets_from([H EXCEPT ![c]._widgets = <<>>], c, new)

\* The position in seq, counted from 1, that Python's index names.
Position(seq, index) == IF index < 0 THEN Len(seq) + index + 1 ELSE index + 1

\* seq without its element at position k.
RemoveAt(seq, k) == SubSeq(seq, 1, k - 1) \o SubSeq(seq, k + 1, Len(seq))

\* Container.__setitem__: `self._widgets[index] = value`
__setitem__(H, c, index, value) ==
    IF ~InRange(H[c]._widgets, index) THEN Raise(H, "IndexError", c)
    ELSE Ok([H EXCEPT ![c]._widgets[Position(H[c]._widgets, index)] = value])

\* Container.pop: `self._widgets.pop(index)`, ret being the widget returned.
pop(H, c, index) ==
    IF ~InRange(H[c]._widgets, index) THEN Raise(H, "IndexError", c) @@ [ret |-> 0]
    ELSE Ok([H EXCEPT ![c]._widgets = RemoveAt(@, Position(@, index))])
           @@ [ret |-> Item(H[c]._widgets, index)]

\* Container.remove: `self._widgets.remove(other)` removes the first
\* occurrence of other, widgets being equal by identity.
remove(H, c, other) ==
    LET at == {i \in 1 .. Len(H[c]._widgets) : H[c]._widgets[i] = other}
    IN  IF at = {} THEN Raise(H, "ValueError", c)
        ELSE Ok([H EXCEPT ![c]._widgets =
                    RemoveAt(@, CHOOSE i \in at : \A k \in at : i <= k)])

\* --------------------------------------------------- centering and printing

\* The centering policies; the attribute _centered_axis holds one, or None.
CenteringPolicy == {"ALL", "VERTICAL", "HORIZONTAL"}

\* The end of Container.center, self.get_lines() having given r: the position
\* is taken from the terminal's size on the axes the policy names, the policy
\* is stored if asked, and the terminal's size is recorded.
center_position(r, c, where, store) ==
    IF r.err # "" THEN Raise(r.H, r.err, r.culprit)
    ELSE Ok([r.H EXCEPT
               ![c].pos = <<IF Val(where) \in {"ALL", "HORIZONTAL"}
                            THEN (terminal_size[1] - r.H[c].width + 2) \div 2
                            ELSE @[1],
                            IF Val(where) \in {"ALL", "VERTICAL"}
                            THEN (terminal_size[2] - r.H[c].height + 2) \div 2
                            ELSE @[2]>>,
               ![c]._centered_axis = IF store THEN where ELSE @,
               ![c]._prev_screen = terminal_size])

\* Container.center; with where None the policy is CenteringPolicy's default,
\* which neither the sources nor the text name: the call is then reported as
\* "Undefined".
Container_center(H, c, where, store) ==
    IF where = None THEN Raise(H, "Undefined", c)
    ELSE center_position(Container_get_lines(H, c), c, where, store)

RECURSIVE resize_callbacks(_, _)

\* The callback of subscriber i having given r, the next one is called; an
\* error of a callback ends the notification.
resize_next(r, i) == IF r.err # "" THEN r ELSE resize_callbacks(r.H, i + 1)

\* The subscribers of terminal.RESIZE called from subscriber i on: every
\* container subscribed `lambda *_: self.center(self._centered_axis)` when it
\* was constructed, so they are called in the order of construction.
resize_callbacks(H, i) ==
    IF i > Len(H) THEN Ok(H)
    ELSE resize_next(IF IsContainer(H, i)
                     THEN Container_center(H, i, H[i]._centered_axis, TRUE)
                     ELSE Ok(H),
                     i)

\* The end of Container.print, self.get_lines() having given r inside
\* `with cursor_at(self.pos)`: the lines are written at the position at.
print_written(r, c, at) ==
    IF r.err # "" THEN Raise(r.H, r.err, r.culprit) @@ [lines |-> <<>>, at |-> at]
    ELSE Ok([r.H EXCEPT ![c]._has_printed = TRUE]) @@ [lines |-> r.lines, at |-> at]

\* `with cursor_at(self.pos) as print_here: for line in self.get_lines()`:
\* the cursor position is taken before the layout pass runs.
print_write(H1, c) == print_written(Container_get_lines(H1, c), c, H1[c].pos)

\* Container.print after the centering that a changed terminal size caused
\* gave cen: the size is recorded and a container that allows fullscreen is
\* moved to the origin.
print_centered(cen, c) ==
    IF cen.err # ""
    THEN Raise(cen.H, cen.err, cen.culprit) @@ [lines |-> <<>>, at |-> cen.H[c].pos]
    ELSE print_write([cen.H EXCEPT ![c]._prev_screen = terminal_size,
                                   ![c].pos = IF cen.H[c].allow_fullscreen
                                              THEN origin ELSE @],
                     c)

\* Container.print
Container_print(H, c) ==
    print_centered(IF terminal_size # H[c]._prev_screen
                   THEN Container_center(H, c, H[c]._centered_axis, TRUE)
                   ELSE Ok(H),
                   c)

\* ------------------------------------------------------ identity registry

\* The identity registry Widget._id_manager: the entries (id, widget) it
\* holds, none when the program starts.
New_IDManager == {}

\* The entries of the registry that refer to widget w.
Entries(manager, w) == {e \in manager : e.widget = w}

\* _IDManager.get_id: the id widget w is registered under, None when no
\* entry refers to it (the setter below leaves at most one entry a widget).
get_id(manager, w) ==
    IF Entries(manager, w) = {} THEN None
    ELSE Some((CHOOSE e \in Entries(manager, w) : TRUE).id)

\* _IDManager.deregister: the entry under key is removed.
deregister(manager, key) == {e \in manager : e.id # key}

\* _IDManager.register: widget w is entered under its id, in the place of
\* whatever was registered under that id.
register(manager, H, w) ==
    {e \in manager : e.id # Val(H[w]._id)} \cup {[id |-> Val(H[w]._id), widget |-> w]}

\* The setter of Widget.id registering the new id without deregistering the
\* old one.
id_without_deregister(H, manager, w, value) ==
    IF H[w]._id = value THEN [H |-> H, manager |-> manager, calls |-> <<>>]
    ELSE [H |-> [H EXCEPT ![w]._id = value],
          manager |-> register(manager, [H EXCEPT ![w]._id = value], w),
          calls |-> <<[call |-> "register", arg |-> value]>>]

\* The setter of Widget.id, value being a string; calls lists the calls made
\* on the manager.
Widget_id(H, manager, w, value) ==
    IF H[w]._id = value THEN [H |-> H, manager |-> manager, calls |-> <<>>]
    ELSE LET old == get_id(manager, w)
         IN  [H |-> [H EXCEPT ![w]._id = value],
              manager |-> register(IF old # None THEN deregister(manager, Val(old))
                                   ELSE manager,
                                   [H EXCEPT ![w]._id = value], w),
              calls |-> (IF old # None THEN <<[call |-> "deregister", arg |-> old]>>
                         ELSE <<>>)
                        \o <<[call |-> "register", arg |-> value]>>]

\* Widget.copy of a widget that has no parent and no child: deepcopy gives a
\* new widget with every attribute of w, _id included, whose mouse targets
\* have the copy as parent; the registry is not touched.
copy(H, w) ==
    Append(H, [H[w] EXCEPT !.mouse_targets =
                  [k \in 1 .. Len(@) |-> [@[k] EXCEPT !.w = Len(H) + 1]]])

\* ----------------------------------------------------------------- bindings

\* keys.ANY_KEY, the reserved key that stands for any key.
ANY_KEY == "ANY_KEY"

\* The entries of self._bindings under key: none, or the one binding of key
\* (its callback and description).
Bound(H, w, key) == {b \in H[w]._bindings : b.key = key}

\* The binding bind stores: the description defaults to a text made of the
\* key and the callback.
Binding(key, action, description) ==
    [key |-> key, action |-> action,
     description |-> IF description = None THEN <<"Binding of", key, "to", action>>
                     ELSE description]

\* Widget.bind leaving a key that is bound already with its binding.
bind_first_wins(H, w, key, action, description) ==
    IF ~H[w].is_bindable THEN Raise(H, "TypeError", w)
    ELSE IF Bound(H, w, key) # {} THEN Ok(H)
    ELSE Ok([H EXCEPT ![w]._bindings = @ \cup {Binding(key, action, description)}])

\* Widget.bind
bind(H, w, key, action, description) ==
    IF ~H[w].is_bindable THEN Raise(H, "TypeError", w)
    ELSE Ok([H EXCEPT ![w]._bindings =
                {b \in @ : b.key # key} \cup {Binding(key, action, description)}])

\* `method, _ = self._bindings[binding]; method(self, key)`: the call of the
\* callback bound under binding.
invoke(H, w, binding, key) ==
    <<[binding |-> binding, method |-> (CHOOSE b \in Bound(H, w, binding) : TRUE).action,
       self |-> w, key |-> key]>>

\* Widget.execute_binding: the callbacks it calls, in order, and what it
\* returns.
execute_binding(H, w, key) ==
    [H |-> H,
     calls |-> (IF Bound(H, w, ANY_KEY) # {} THEN invoke(H, w, ANY_KEY, key) ELSE <<>>)
               \o (IF Bound(H, w, key) # {} THEN invoke(H, w, key, key) ELSE <<>>),
     ret |-> Bound(H, w, key) # {}]

\* ------------------------------------------------------------ the program

\* The record of the last call made on the widgets: the method, its receiver
\* and arguments, what it returned or raised, the callbacks it invoked.
NoCall ==
    [op |-> "init", self |-> 0, index |-> None, key |-> "",
     event |-> [action |-> "", pos |-> <<0, 0>>], ret |-> FALSE, err |-> "",
     culprit |-> 0, lines |-> <<>>, clicks |-> <<>>, forwarded |-> <<>>,
     arg |-> None, calls |-> <<>>, at |-> <<0, 0>>]

Containers(H) == {w \in 1 .. Len(H) : IsContainer(H, w)}

RECURSIVE DefineTargets(_, _, _)
\* The define_mouse_target calls that follow a widget's construction.
DefineTargets(H, w, defs) ==
    IF defs = <<>> THEN H
    ELSE DefineTargets(define_mouse_target(H, w, Head(defs).left, Head(defs).right,
                                           Head(defs).height, Head(defs).top,
                                           Head(defs).onclick),
                       w, Tail(defs))

\* `c += Label(...)`: a Label is constructed, its mouse targets are defined,
\* and it is added to container c.
AddLabel(c, cfg) ==
    \E r \in {_add_widget(DefineTargets(Append(W, NewLabel(cfg)), Len(W) + 1, cfg.targets),
                          c, Len(W) + 1)} :
        /\ r.err # "Undefined"
        /\ W' = r.H
        /\ pre' = W
        /\ UNCHANGED <<terminal, _id_manager>>
        /\ last' = [NoCall EXCEPT !.op = "add", !.self = c, !.err = r.err,
                                  !.culprit = r.culprit]

\* `c += Container(...)`
AddContainer(c, cfg) ==
    \E r \in {_add_widget(Append(W, NewContainer(cfg)), c, Len(W) + 1)} :
        /\ r.err # "Undefined"
        /\ W' = r.H
        /\ pre' = W
        /\ UNCHANGED <<terminal, _id_manager>>
        /\ last' = [NoCall EXCEPT !.op = "add", !.self = c, !.err = r.err,
                                  !.culprit = r.culprit]

\* `c.get_lines()`
GetLines(c) ==
    \E r \in {Container_get_lines(W, c)} :
        /\ r.err # "Undefined"
        /\ W' = r.H
        /\ pre' = W
        /\ UNCHANGED <<terminal, _id_manager>>
        /\ last' = [NoCall EXCEPT !.op = "get_lines", !.self = c, !.err = r.err,
                                  !.culprit = r.culprit, !.lines = r.lines]

\* `w.width = value`
SetWidth(w, value) ==
    /\ W' = [W EXCEPT ![w].width = value]
    /\ pre' = W
    /\ UNCHANGED <<terminal, _id_manager>>
    /\ last' = [NoCall EXCEPT !.op = "width", !.self = w]

\* `w.static_width = value`
SetStaticWidth(w, value) ==
    /\ W' = static_width(W, w, value)
    /\ pre' = W
    /\ UNCHANGED <<terminal, _id_manager>>
    /\ last' = [NoCall EXCEPT !.op = "static_width", !.self = w, !.index = Some(value)]

\* `w.select(index)`
Select(w, index) ==
    \E r \in {select(W, w, index)} :
        /\ W' = r.H
        /\ pre' = W
        /\ UNCHANGED <<terminal, _id_manager>>
        /\ last' = [NoCall EXCEPT !.op = "select", !.self = w, !.index = index,
                                  !.err = r.err, !.culprit = r.culprit]

\* `c.handle_key(key)`
HandleKey(c, key) ==
    \E r \in {Container_handle_key(W, c, key)} :
        /\ W' = r.H
        /\ pre' = W
        /\ UNCHANGED <<terminal, _id_manager>>
        /\ last' = [NoCall EXCEPT !.op = "handle_key", !.self = c, !.key = key,
                                  !.ret = r.ret, !.err = r.err, !.clicks = r.clicks]

\* `c.handle_mouse(event)`
HandleMouse(c, event) ==
    \E r \in {Container_handle_mouse(W, c, event, <<>>)} :
        /\ W' = r.H
        /\ pre' = W
        /\ UNCHANGED <<terminal, _id_manager>>
        /\ last' = [NoCall EXCEPT !.op = "handle_mouse", !.self = c, !.event = event,
                                  !.ret = r.ret, !.err = r.err, !.clicks = r.clicks,
                                  !.forwarded = r.forwarded]

\* `c += w` for a widget w constructed before
AddWidget(c, w) ==
    \E r \in {_add_widget(W, c, w)} :
        /\ r.err # "Undefined"
        /\ W' = r.H
        /\ pre' = W
        /\ UNCHANGED <<terminal, _id_manager>>
        /\ last' = [NoCall EXCEPT !.op = "add", !.self = c, !.arg = w,
                                  !.err = r.err, !.culprit = r.culprit]

\* `c.set_widgets(new)`
SetWidgets(c, new) ==
    \E r \in {set_widgets(W, c, new)} :
        /\ r.err # "Undefined"
        /\ W' = r.H
        /\ pre' = W
        /\ UNCHANGED <<terminal, _id_manager>>
        /\ last' = [NoCall EXCEPT !.op = "set_widgets", !.self = c, !.arg = new,
                                  !.err = r.err, !.culprit = r.culprit]

\* `c[index] = value`
SetItem(c, index, value) ==
    \E r \in {__setitem__(W, c, index, value)} :
        /\ W' = r.H
        /\ pre' = W
        /\ UNCHANGED <<terminal, _id_manager>>
        /\ last' = [NoCall EXCEPT !.op = "__setitem__", !.self = c,
                                  !.index = Some(index), !.arg = value,
                                  !.err = r.err, !.culprit = r.culprit]

\* `c.pop(index)`
Pop(c, index) ==
    \E r \in {pop(W, c, index)} :
        /\ W' = r.H
        /\ pre' = W
        /\ UNCHANGED <<terminal, _id_manager>>
        /\ last' = [NoCall EXCEPT !.op = "pop", !.self = c, !.index = Some(index),
                                  !.arg = r.ret, !.err = r.err, !.culprit = r.culprit]

\* `c.remove(other)`
Remove(c, other) ==
    \E r \in {remove(W, c, other)} :
        /\ W' = r.H
        /\ pre' = W
        /\ UNCHANGED <<terminal, _id_manager>>
        /\ last' = [NoCall EXCEPT !.op = "remove", !.self = c, !.arg = other,
                                  !.err = r.err, !.culprit = r.culprit]

\* `w.id = value`
SetId(w, value) ==
    \E r \in {Widget_id(W, _id_manager, w, value)} :
        /\ W' = r.H
        /\ _id_manager' = r.manager
        /\ pre' = W
        /\ UNCHANGED terminal
        /\ last' = [NoCall EXCEPT !.op = "id", !.self = w, !.arg = value,
                                  !.calls = r.calls]

\* `w.copy()`, the copy being the widget last constructed
Copy(w) ==
    /\ W' = copy(W, w)
    /\ pre' = W
    /\ UNCHANGED <<terminal, _id_manager>>
    /\ last' = [NoCall EXCEPT !.op = "copy", !.self = w, !.ret = TRUE]

\* `w.bind(key, action, description)`
Bind(w, key, action, description) ==
    \E r \in {bind(W, w, key, action, description)} :
        /\ W' = r.H
        /\ pre' = W
        /\ UNCHANGED <<terminal, _id_manager>>
        /\ last' = [NoCall EXCEPT !.op = "bind", !.self = w, !.key = key,
                                  !.arg = [action |-> action, description |-> description],
                                  !.err = r.err, !.culprit = r.culprit]

\* `w.execute_binding(key)`
ExecuteBinding(w, key) ==
    \E r \in {execute_binding(W, w, key)} :
        /\ W' = r.H
        /\ pre' = W
        /\ UNCHANGED <<terminal, _id_manager>>
        /\ last' = [NoCall EXCEPT !.op = "execute_binding", !.self = w, !.key = key,
                                  !.ret = r.ret, !.calls = r.calls]

\* `w.define_mouse_target(left, right, height, top)`
DefineMouseTarget(w, left, right, height, top) ==
    /\ W' = define_mouse_target(W, w, left, right, height, top, 0)
    /\ pre' = W
    /\ UNCHANGED <<terminal, _id_manager>>
    /\ last' = [NoCall EXCEPT !.op = "define_mouse_target", !.self = w]

\* `w.get_target(pos)`
GetTarget(w, pos) ==
    /\ W' = W
    /\ pre' = W
    /\ UNCHANGED <<terminal, _id_manager>>
    /\ last' = [NoCall EXCEPT !.op = "get_target", !.self = w, !.at = pos,
                              !.arg = get_target(W, w, pos)]

\* `target.contains(pos)` for the target object ref
Contains(ref, pos) ==
    /\ W' = W
    /\ pre' = W
    /\ UNCHANGED <<terminal, _id_manager>>
    /\ last' = [NoCall EXCEPT !.op = "contains", !.self = ref.w, !.arg = ref,
                              !.at = pos, !.ret = contains(W, ref, pos)]

\* `c.center(where, store)`
Center(c, where, store) ==
    \E r \in {Container_center(W, c, where, store)} :
        /\ r.err # "Undefined"
        /\ W' = r.H
        /\ pre' = W
        /\ UNCHANGED <<terminal, _id_manager>>
        /\ last' = [NoCall EXCEPT !.op = "center", !.self = c, !.arg = where,
                                  !.err = r.err, !.culprit = r.culprit]

\* The terminal is given another size; terminal.size is the new size from
\* now on, and the subscribers of terminal.RESIZE have still to be called.
Resize(size) ==
    /\ terminal.size # size
    /\ terminal' = [size |-> size, resized |-> TRUE]
    /\ pre' = W
    /\ UNCHANGED <<W, _id_manager>>
    /\ last' = [NoCall EXCEPT !.op = "resize"]

\* The terminal notifies the change of size: the subscribers of
\* terminal.RESIZE are called.
ResizeNotified ==
    /\ terminal.resized
    /\ \E r \in {resize_callbacks(W, 1)} :
          /\ r.err # "Undefined"
          /\ W' = r.H
          /\ pre' = W
          /\ terminal' = [terminal EXCEPT !.resized = FALSE]
          /\ UNCHANGED _id_manager
          /\ last' = [NoCall EXCEPT !.op = "resize_notified", !.err = r.err,
                                    !.culprit = r.culprit]

\* `c.print()`
CallPrint(c) ==
    \E r \in {Container_print(W, c)} :
        /\ r.err # "Undefined"
        /\ W' = r.H
        /\ pre' = W
        /\ UNCHANGED <<terminal, _id_manager>>
        /\ last' = [NoCall EXCEPT !.op = "print", !.self = c, !.err = r.err,
                                  !.culprit = r.culprit, !.lines = r.lines,
                                  !.at = r.at]

\* ------------------------------------------------- the layout specification

\* The root containers of the layout specification: narrower than its side
\* borders, wide enough for a label, and of width 0 (taken from the first
\* child); with the default height and a larger one.
LayoutRoots ==
    {[width |-> w, height |-> h, border |-> DefaultBorder, size_policy |-> "FILL",
      parent_align |-> "LEFT"] : w \in {0, 3, 8}, h \in {1, 4}}

\* The labels added in the layout specification.
LayoutLabels ==
    {[value |-> <<"a", "b">>, padding |-> 0, size_policy |-> "FILL",
      parent_align |-> "LEFT", _selectables_length |-> 0, targets |-> <<>>],
     [value |-> <<ESC, "a", "b", "c">>, padding |-> 1, size_policy |-> "OTHER",
      parent_align |-> "CENTER", _selectables_length |-> 1,
      targets |-> <<[left |-> 0, right |-> 0, height |-> 1, top |-> 0, onclick |-> 1]>>],
     [value |-> <<"a">>, padding |-> 0, size_policy |-> "STATIC",
      parent_align |-> "RIGHT", _selectables_length |-> 0, targets |-> <<>>]}

\* The containers added in the layout specification.
LayoutContainers ==
    {[width |-> 10, height |-> 7, border |-> DefaultBorder, size_policy |-> "OTHER",
      parent_align |-> "LEFT"],
     [width |-> 2, height |-> 1, border |-> DefaultBorder, size_policy |-> "STATIC",
      parent_align |-> "CENTER"]}

\* The values assigned to static_width.
StaticWidths == {1, 5}

InitLayout ==
    /\ \E cfg \in LayoutRoots : W = <<NewContainer(cfg)>>
    /\ last = NoCall
    /\ pre = W
    /\ terminal = NewTerminal
    /\ _id_manager = New_IDManager

NextLayout ==
    \/ \E c \in Containers(W), cfg \in LayoutLabels :
          Len(W) < MaxLayoutWidgets /\ AddLabel(c, cfg)
    \/ \E c \in Containers(W), cfg \in LayoutContainers :
          Len(W) < MaxLayoutWidgets /\ AddContainer(c, cfg)
    \/ \E c \in Containers(W) : W[c].parent = 0 /\ GetLines(c)
    \/ \E w \in 2 .. Len(W), value \in StaticWidths :
          W[w].size_policy # "STATIC" /\ SetStaticWidth(w, value)

SpecLayout == InitLayout /\ [][NextLayout]_vars

\* --------------------------------------------- the selection specification

\* Most widgets constructed in a run of the selection specification.
MaxKeysWidgets == 4

\* A mouse target over the whole width of its widget, with a callback.
FullTarget == [left |-> 0, right |-> 0, height |-> 1, top |-> 0, onclick |-> 1]

\* The root container of the selection and mouse specifications.
WideRoot ==
    [width |-> 12, height |-> 1, border |-> DefaultBorder, size_policy |-> "FILL",
     parent_align |-> "LEFT"]

\* The container added below the root.
InnerContainer ==
    [width |-> 8, height |-> 1, border |-> DefaultBorder, size_policy |-> "FILL",
     parent_align |-> "LEFT"]

\* The labels of the selection specification: not selectable, and with two
\* selectables and a mouse target.
KeysLabels ==
    {[value |-> <<"a">>, padding |-> 0, size_policy |-> "FILL", parent_align |-> "LEFT",
      _selectables_length |-> 0, targets |-> <<>>],
     [value |-> <<"a">>, padding |-> 0, size_policy |-> "FILL", parent_align |-> "LEFT",
      _selectables_length |-> 2, targets |-> <<FullTarget>>]}

\* The arguments of select: None, indexes in range, and out of range on
\* both sides.
SelectIndexes == {None} \cup {Some(i) : i \in {-5, -1, 0, 1, 4}}

\* The keys pressed: a next key, a previous key, the confirm key, another.
PressedKeys == {"j", "k", ENTER, "x"}

InitKeys ==
    /\ W = <<NewContainer(WideRoot)>>
    /\ last = NoCall
    /\ pre = W
    /\ terminal = NewTerminal
    /\ _id_manager = New_IDManager

NextKeys ==
    \/ \E c \in Containers(W), cfg \in KeysLabels :
          Len(W) < MaxKeysWidgets /\ AddLabel(c, cfg)
    \/ Len(W) < MaxKeysWidgets /\ Containers(W) = {1} /\ AddContainer(1, InnerContainer)
    \/ \E key \in PressedKeys : HandleKey(1, key)

\* Most widgets constructed in a run of the specification of select.
MaxSelectWidgets == 3

NextSelect ==
    \/ \E c \in Containers(W), cfg \in KeysLabels :
          Len(W) < MaxSelectWidgets /\ AddLabel(c, cfg)
    \/ Len(W) < MaxSelectWidgets /\ Containers(W) = {1} /\ AddContainer(1, InnerContainer)
    \/ \E w \in 1 .. Len(W), index \in SelectIndexes : Select(w, index)

SpecKeys == InitKeys /\ [][NextKeys]_vars

SpecSelect == InitKeys /\ [][NextSelect]_vars

\* ------------------------------------------------- the mouse specification

\* Most widgets constructed in a run of the mouse specification.
MaxMouseWidgets == 4

\* The labels of the mouse specification: selectable with one target,
\* selectable with two targets side by side, and not selectable with a
\* target.
MouseLabels ==
    {[value |-> <<"a">>, padding |-> 0, size_policy |-> "FILL", parent_align |-> "LEFT",
      _selectables_length |-> 1, targets |-> <<FullTarget>>],
     [value |-> <<"a">>, padding |-> 0, size_policy |-> "FILL", parent_align |-> "LEFT",
      _selectables_length |-> 1,
      targets |-> <<[left |-> 0, right |-> 4, height |-> 1, top |-> 0, onclick |-> 1],
                    [left |-> 4, right |-> 0, height |-> 1, top |-> 0, onclick |-> 2]>>],
     [value |-> <<"a">>, padding |-> 0, size_policy |-> "FILL", parent_align |-> "LEFT",
      _selectables_length |-> 0, targets |-> <<FullTarget>>]}

\* The mouse events: each action at points inside and outside the targets.
MouseEvents ==
    {[action |-> a, pos |-> p] :
        a \in MouseAction, p \in {<<2, 1>>, <<6, 1>>, <<2, 2>>, <<6, 2>>, <<11, 1>>}}

InitMouse ==
    /\ W = <<NewContainer(WideRoot)>>
    /\ last = NoCall
    /\ pre = W
    /\ terminal = NewTerminal
    /\ _id_manager = New_IDManager

NextMouse ==
    \/ \E c \in Containers(W), cfg \in MouseLabels :
          Len(W) < MaxMouseWidgets /\ AddLabel(c, cfg)
    \/ Len(W) < MaxMouseWidgets /\ Containers(W) = {1} /\ AddContainer(1, InnerContainer)
    \/ \E event \in MouseEvents : HandleMouse(1, event)

SpecMouse == InitMouse /\ [][NextMouse]_vars

\* ------------------------------------------------ the resize specification

\* Most widgets constructed in a run of the resize specification.
MaxResizeWidgets == 2

\* The root containers of the resize specification: with the default height
\* and a larger one, filling or of static width, allowing fullscreen or not.
ResizeRoots ==
    {[NewContainer([width |-> 8, height |-> h, border |-> DefaultBorder,
                    size_policy |-> policy, parent_align |-> "LEFT"])
        EXCEPT !.allow_fullscreen = fullscreen] :
        h \in {1, 4}, policy \in {"FILL", "STATIC"}, fullscreen \in BOOLEAN}

\* The label added in the resize specification, with a mouse target.
ResizeLabels ==
    {[value |-> <<"a", "b">>, padding |-> 0, size_policy |-> "FILL",
      parent_align |-> "LEFT", _selectables_length |-> 0, targets |-> <<FullTarget>>]}

\* The sizes the terminal is given.
TerminalSizes == {<<12, 6>>, <<15, 9>>}

InitResize ==
    /\ \E root \in ResizeRoots : W = <<root>>
    /\ last = NoCall
    /\ pre = W
    /\ terminal = NewTerminal
    /\ _id_manager = New_IDManager

NextResize ==
    \/ \E cfg \in ResizeLabels : Len(W) < MaxResizeWidgets /\ AddLabel(1, cfg)
    \/ \E where \in CenteringPolicy, store \in BOOLEAN : Center(1, Some(where), store)
    \/ \E size \in TerminalSizes : Resize(size)
    \/ ResizeNotified
    \/ CallPrint(1)

SpecResize == InitResize /\ [][NextResize]_vars

\* ---------------------------------------------- the children specification

\* Most children a container is given in the children specification.
MaxChildren == 2

\* The label of the children specification.
ChildLabel ==
    [value |-> <<"a">>, padding |-> 0, size_policy |-> "FILL", parent_align |-> "LEFT",
     _selectables_length |-> 0, targets |-> <<>>]

\* The widgets that are not containers.
Leaves(H) == {w \in 1 .. Len(H) : ~IsContainer(H, w)}

\* The lists of n leaves.
LeafLists(H, n) == [1 .. n -> Leaves(H)]

\* Two containers and a label, constructed and not yet composed.
InitChildren ==
    /\ W = <<NewContainer(WideRoot), NewContainer(WideRoot), NewLabel(ChildLabel)>>
    /\ last = NoCall
    /\ pre = W
    /\ terminal = NewTerminal
    /\ _id_manager = New_IDManager

NextChildren ==
    \/ \E c \in Containers(W), w \in Leaves(W) :
          Len(W[c]._widgets) < MaxChildren /\ AddWidget(c, w)
    \/ \E c \in Containers(W), new \in LeafLists(W, MaxChildren) : SetWidgets(c, new)
    \/ \E c \in Containers(W), index \in {0, 2}, value \in Leaves(W) :
          SetItem(c, index, value)
    \/ \E c \in Containers(W), index \in {-1, 2} : Pop(c, index)
    \/ \E c \in Containers(W), other \in Leaves(W) : Remove(c, other)

SpecChildren == InitChildren /\ [][NextChildren]_vars

\* ---------------------------------------------- the identity specification

\* Most widgets constructed or copied in a run of the identity
\* specification.
MaxIdWidgets == 3

\* The ids assigned.
Ids == {"a", "b"}

\* Two labels, constructed and without id.
InitIds ==
    /\ W = <<NewLabel(ChildLabel), NewLabel(ChildLabel)>>
    /\ last = NoCall
    /\ pre = W
    /\ terminal = NewTerminal
    /\ _id_manager = New_IDManager

NextIds ==
    \/ \E w \in 1 .. Len(W), value \in Ids : SetId(w, Some(value))
    \/ \E w \in 1 .. Len(W) :
          Len(W) < MaxIdWidgets /\ W[w].parent = 0 /\ W[w]._widgets = <<>> /\ Copy(w)

SpecIds == InitIds /\ [][NextIds]_vars

\* ---------------------------------------------- the bindings specification

\* The keys bound and executed: the reserved key and two others.
BoundKeys == {ANY_KEY, "x", "y"}

\* The callbacks bound, and the descriptions given with them.
Callbacks == {"f", "g"}
Descriptions == {None, <<"d">>}

\* A label constructed with is_bindable=True, and one of the default type.
InitBind ==
    /\ W = <<[NewLabel(ChildLabel) EXCEPT !.is_bindable = TRUE], NewLabel(ChildLabel)>>
    /\ last = NoCall
    /\ pre = W
    /\ terminal = NewTerminal
    /\ _id_manager = New_IDManager

NextBind ==
    \/ \E w \in 1 .. Len(W), key \in BoundKeys, action \in Callbacks,
          description \in Descriptions : Bind(w, key, action, description)
    \/ \E w \in 1 .. Len(W), key \in BoundKeys : ExecuteBinding(w, key)

SpecBind == InitBind /\ [][NextBind]_vars

\* ------------------------------------------------ the target specification

\* Most mouse targets defined on the widget of the target specification.
MaxTargets == 2

\* The labels of the target specification: three or five cells wide, at the
\* origin or moved by `label.pos = (3, 2)`.
TargetLabels ==
    {[NewLabel([value |-> value, padding |-> 0, size_policy |-> "FILL",
                parent_align |-> "LEFT", _selectables_length |-> 0])
        EXCEPT !.pos = pos] :
        value \in {<<"a", "b", "c">>, <<"a", "b", "c", "d", "e">>},
        pos \in {origin, <<3, 2>>}}

\* Every MouseTarget object of the heap.
TargetRefs(H) ==
    {ref \in [w : 1 .. Len(H), j : 1 .. MaxTargets + 1] :
        ref.j <= Len(H[ref.w].targets)}

\* The points from one cell outside the rectangle of a target to one cell
\* outside on the opposite side.
Around(t) ==
    {<<x, y>> : x \in t.start[1] - 1 .. t.end[1] + 1,
                y \in t.start[2] - 1 .. t.end[2] + 1}

InitTarget ==
    /\ \E label \in TargetLabels : W = <<label>>
    /\ last = NoCall
    /\ pre = W
    /\ terminal = NewTerminal
    /\ _id_manager = New_IDManager

NextTarget ==
    \/ \E left \in {0, 1}, height \in {1, 2} :
          Len(W[1].targets) < MaxTargets /\ DefineMouseTarget(1, left, 0, height, 0)
    \/ \E ref \in TargetRefs(W) : \E pos \in Around(Target(W, ref)) : Contains(ref, pos)

SpecTarget == InitTarget /\ [][NextTarget]_vars

\* ------------------------------------------------ the nesting specification

\* Most widgets constructed in a run of the nesting specification.
MaxNestedWidgets == 4

\* The labels of the nesting specification: with one selectable and a mouse
\* target, and not selectable.
NestedLabels ==
    {[value |-> <<"a">>, padding |-> 0, size_policy |-> "FILL", parent_align |-> "LEFT",
      _selectables_length |-> 1, targets |-> <<FullTarget>>],
     [value |-> <<"a">>, padding |-> 0, size_policy |-> "FILL", parent_align |-> "LEFT",
      _selectables_length |-> 0, targets |-> <<>>]}

\* The arguments of select in the nesting specification.
NestedIndexes == {None} \cup {Some(i) : i \in 0 .. 2}

NextNested ==
    \/ \E c \in Containers(W), cfg \in NestedLabels :
          Len(W) < MaxNestedWidgets /\ AddLabel(c, cfg)
    \/ Len(W) < MaxNestedWidgets /\ Containers(W) = {1} /\ AddContainer(1, InnerContainer)
    \/ \E c \in Containers(W), index \in NestedIndexes : Select(c, index)

SpecNested == InitKeys /\ [][NextNested]_vars

\* ---------------------------------------------- the alignment specification

\* Most widgets constructed in a run of the alignment specification.
MaxAlignWidgets == 3

\* The root containers of the alignment specification.
AlignRoots ==
    {[width |-> w, height |-> 1, border |-> DefaultBorder, size_policy |-> "FILL",
      parent_align |-> "LEFT"] : w \in {8}}

\* The labels of the alignment specification: filling, static and of
\* another policy, of every alignment, one cell wide or wider than the
\* interior.
AlignLabels ==
    {[value |-> cfg[1], padding |-> 0, size_policy |-> cfg[2], parent_align |-> cfg[3],
      _selectables_length |-> 0, targets |-> <<>>] :
        cfg \in {<< <<"a">>, "FILL", "LEFT">>, << <<"a">>, "FILL", "RIGHT">>,
                 << <<"a">>, "OTHER", "CENTER">>, << <<"a">>, "STATIC", "RIGHT">>,
                 << <<"a", "b", "c", "d", "e">>, "OTHER", "LEFT">>}}

InitAlign ==
    /\ \E cfg \in AlignRoots : W = <<NewContainer(cfg)>>
    /\ last = NoCall
    /\ pre = W
    /\ terminal = NewTerminal
    /\ _id_manager = New_IDManager

NextAlign ==
    \/ \E cfg \in AlignLabels : Len(W) < MaxAlignWidgets /\ AddLabel(1, cfg)
    \/ Len(W) < MaxAlignWidgets /\ AddContainer(1, InnerContainer)
    \/ \E w \in 2 .. Len(W) : SetWidth(w, 7)
    \/ GetLines(1)

SpecAlign == InitAlign /\ [][NextAlign]_vars

\* --------------------------------------------- the membership specification

\* The label of the membership specification: one selectable, one target.
MemberLabel ==
    [value |-> <<"a">>, padding |-> 0, size_policy |-> "FILL", parent_align |-> "LEFT",
     _selectables_length |-> 1, targets |-> <<FullTarget>>]

\* A container and two labels with their mouse targets, constructed and not
\* yet composed.
InitMembers ==
    /\ W = DefineTargets(
             DefineTargets(<<NewContainer(WideRoot), NewLabel(MemberLabel),
                             NewLabel(MemberLabel)>>,
                           2, MemberLabel.targets),
             3, MemberLabel.targets)
    /\ last = NoCall
    /\ pre = W
    /\ terminal = NewTerminal
    /\ _id_manager = New_IDManager

NextMembers ==
    \/ \E w \in Leaves(W) : Len(W[1]._widgets) < MaxChildren /\ AddWidget(1, w)
    \/ \E new \in LeafLists(W, MaxChildren) : SetWidgets(1, new)
    \/ \E index \in {0, 2} : Pop(1, index)
    \/ \E other \in Leaves(W) : Remove(1, other)
    \/ \E index \in {None, Some(0), Some(1), Some(2)} : Select(1, index)
    \/ \E key \in {"j", "k"} : HandleKey(1, key)
    \/ \E pos \in {<<2, 1>>, <<2, 2>>} :
          HandleMouse(1, [action |-> "LEFT_CLICK", pos |-> pos])

SpecMembers == InitMembers /\ [][NextMembers]_vars

\* --------------------------------------------- the hit test specification

\* Most widgets constructed in a run of the hit test specification.
MaxHitWidgets == 3

\* The labels of the hit test specification: with one target over its row,
\* with a target two rows high, and with two targets that overlap.
HitLabels ==
    {[value |-> <<"a">>, padding |-> 0, size_policy |-> "FILL", parent_align |-> "LEFT",
      _selectables_length |-> 0, targets |-> targets] :
        targets \in {<<FullTarget>>,
                     <<[left |-> 0, right |-> 0, height |-> 2, top |-> 0, onclick |-> 1]>>,
                     <<FullTarget,
                       [left |-> 1, right |-> 0, height |-> 1, top |-> 0, onclick |-> 2]>>}}

\* The points asked about: on the rows of the first and second child, at
\* their left edge and inside, and outside every target.
HitPoints == {<<1, 1>>, <<2, 1>>, <<2, 2>>, <<9, 3>>}

NextHit ==
    \/ \E cfg \in HitLabels : Len(W) < MaxHitWidgets /\ AddLabel(1, cfg)
    \/ \E w \in 1 .. Len(W), pos \in HitPoints : GetTarget(w, pos)

SpecHit == InitKeys /\ [][NextHit]_vars

\* ------------------------------------------------------------------ claims

\* The interior width Container._update_width leaves to a child of c.
Available(H, c, widget) ==
    H[c].width - sidelength(H, c) - (IF IsContainer(H, widget) THEN 0 ELSE 1)

\* The positions of the children of c that were STATIC and wider than the
\* interior width when a layout pass took the heap from H0 to H: the child's
\* width before the pass against the container's width in the pass (a width
\* of 0 is replaced by a child's width when the pass begins).
TooWide(H0, H, c) ==
    {i \in 1 .. Len(H0[c]._widgets) :
        /\ H0[H0[c]._widgets[i]].size_policy = "STATIC"
        /\ H0[H0[c]._widgets[i]].width > Available(H, c, H0[c]._widgets[i])}

RECURSIVE Below(_, _)
\* The widgets below container c: its children and theirs.
Below(H, c) ==
    UNION {{H[c]._widgets[i]} \cup
             (IF IsContainer(H, H[c]._widgets[i]) THEN Below(H, H[c]._widgets[i]) ELSE {})
           : i \in 1 .. Len(H[c]._widgets)}

\* The position among c's children of the child that is, or holds, widget w;
\* 0 when there is none.
ChildHolding(H, c, w) ==
    LET at == {i \in 1 .. Len(H[c]._widgets) :
                 \/ H[c]._widgets[i] = w
                 \/ /\ IsContainer(H, H[c]._widgets[i])
                    /\ w \in Below(H, H[c]._widgets[i])}
    IN  IF at = {} THEN 0 ELSE CHOOSE i \in at : \A k \in at : i <= k

Returned(op) == last.op = op /\ last.err = ""
Raised(op) == last.op = op /\ last.err # ""

\* C1: every line a successful Container.get_lines() returns has display
\* width exactly the container's width as it stands when the call returns
\* (stated here of the containers of positive width).
C1_LinesHaveContainerWidth ==
    (Returned("get_lines") /\ W[last.self].width > 0) =>
        \A i \in 1 .. Len(last.lines) : real_length(last.lines[i]) = W[last.self].width

\* C2: two consecutive get_lines() calls on a container that children were
\* added to, with no mutation in between, return identical line sequences
\* (stated here of the containers whose children are all Labels).
C2_GetLinesIdempotent ==
    [][(/\ Returned("get_lines") /\ W[last.self]._widgets # <<>>
        /\ \A i \in 1 .. Len(W[last.self]._widgets) :
              ~IsContainer(W, W[last.self]._widgets[i])
        /\ last'.op = "get_lines" /\ last'.err = "" /\ last'.self = last.self)
       => last'.lines = last.lines]_vars

\* C9 as claimed: a STATIC child wider than the interior width makes
\* get_lines() raise WidthExceeded, and the child a WidthExceeded names is
\* STATIC.
C9_StaticTooWideRaisesWidthExceeded ==
    last.op = "get_lines" =>
        /\ TooWide(pre, W, last.self) # {} => last.err = "WidthExceededError"
        /\ last.err = "WidthExceededError" => pre[last.culprit].size_policy = "STATIC"

\* C9 as amended: a pass over a STATIC child wider than the interior width,
\* in the container or in one below it, raises and returns no line; a
\* WidthExceeded names a STATIC child wider than the interior width of its
\* container; and a pass over a too wide STATIC child that raises another
\* error failed at an earlier child.
C9_StaticTooWideFailsThePass ==
    last.op = "get_lines" =>
        /\ (\E c \in {last.self} \cup Below(W, last.self) :
               IsContainer(W, c) /\ TooWide(pre, W, c) # {})
              => last.err # "" /\ last.lines = <<>>
        /\ last.err = "WidthExceededError" =>
              /\ pre[last.culprit].size_policy = "STATIC"
              /\ \E c \in Containers(W) :
                    /\ \E i \in 1 .. Len(W[c]._widgets) : W[c]._widgets[i] = last.culprit
                    /\ pre[last.culprit].width > Available(W, c, last.culprit)
        /\ (TooWide(pre, W, last.self) # {} /\ last.err # "WidthExceededError") =>
              /\ ChildHolding(W, last.self, last.culprit) # 0
              /\ \A i \in TooWide(pre, W, last.self) :
                    ChildHolding(W, last.self, last.culprit) < i

\* A pass raised WidthExceeded over a STATIC child wider than the interior.
C9_Witness ==
    /\ Raised("get_lines") /\ last.err = "WidthExceededError"
    /\ TooWide(pre, W, last.self) # {}
    /\ last.culprit = W[last.self]._widgets[CHOOSE i \in TooWide(pre, W, last.self) :
                                               \A k \in TooWide(pre, W, last.self) : i <= k]

\* C10: a get_lines() that raises leaves the container's width, height,
\* position and mouse_targets, and every child's width and position, as
\* they were before the call.
C10_FailedLayoutLeavesNoTrace ==
    Raised("get_lines") =>
        /\ W[last.self].width = pre[last.self].width
        /\ W[last.self].height = pre[last.self].height
        /\ W[last.self].pos = pre[last.self].pos
        /\ W[last.self].mouse_targets = pre[last.self].mouse_targets
        /\ \A i \in 1 .. Len(W[last.self]._widgets) :
              /\ W[W[last.self]._widgets[i]].width = pre[W[last.self]._widgets[i]].width
              /\ W[W[last.self]._widgets[i]].pos = pre[W[last.self]._widgets[i]].pos

\* The smaller and the larger of two integers.
Min(a, b) == IF a < b THEN a ELSE b
Max(a, b) == IF a > b THEN a ELSE b

\* C3: on a container with 3 selectables and no selection the next key "j"
\* leaves selected_index 0, a second "j" leaves 1, the previous key "k" leads
\* back to 0, and "k" at index 0 is unhandled and leaves 0.
C3_ScenarioC ==
    (/\ last.op = "handle_key" /\ last.err = ""
     /\ Len(selectables(pre, last.self)) = 3) =>
        /\ (last.key = "j" /\ pre[last.self].selected_index = None)
              => W[last.self].selected_index = Some(0)
        /\ (last.key = "j" /\ pre[last.self].selected_index = Some(0))
              => W[last.self].selected_index = Some(1)
        /\ (last.key = "k" /\ pre[last.self].selected_index = Some(1))
              => W[last.self].selected_index = Some(0)
        /\ (last.key = "k" /\ pre[last.self].selected_index = Some(0))
              => ~last.ret /\ W[last.self].selected_index = Some(0)

\* C4: with more than one selectable and an in-range selected_index, a
\* previous key at index 0 and a next key at the last index return False and
\* leave selected_index; any other previous key decreases it by 1, any other
\* next key increases it by 1, and handle_key returns True.
C4_NavigationMovesByOne ==
    LET c == last.self
        n == Len(selectables(pre, c))
        idx == Val(pre[c].selected_index)
    IN  (/\ last.op = "handle_key" /\ n > 1
         /\ pre[c].selected_index # None /\ 0 <= idx /\ idx < n) =>
            /\ last.key \in (keys_previous \cup keys_next) => last.err = ""
            /\ (last.key \in keys_previous /\ idx = 0)
                  => ~last.ret /\ W[c].selected_index = Some(0)
            /\ (last.key \in keys_next /\ idx = n - 1)
                  => ~last.ret /\ W[c].selected_index = pre[c].selected_index
            /\ (last.key \in keys_previous /\ idx > 0)
                  => last.ret /\ W[c].selected_index = Some(idx - 1)
            /\ (last.key \in keys_next /\ idx < n - 1)
                  => last.ret /\ W[c].selected_index = Some(idx + 1)

\* A next key pressed at the last of three selectables came back unhandled.
C4_Witness ==
    /\ last.op = "handle_key" /\ last.key = "j"
    /\ Len(selectables(pre, last.self)) = 3
    /\ pre[last.self].selected_index = Some(2)
    /\ ~last.ret /\ W[last.self].selected_index = Some(2)

\* C5: with no drag in progress, a LEFT_CLICK inside a mouse target T owned
\* by an immediate child makes Container.handle_mouse return True, invokes
\* the callback of T once and no other, and leaves selected_index at the
\* index of T in the container's mouse_targets.
C5_ClickSelectsTarget ==
    LET c == last.self
        t == get_target(pre, c, last.event.pos)
    IN  (/\ last.op = "handle_mouse" /\ last.event.action = "LEFT_CLICK"
         /\ pre[c]._drag_target = 0
         /\ t # <<>> /\ _get_widget(pre, c, t[1]) # 0
         /\ Target(pre, t[1]).onclick # 0) =>
            /\ last.err = "" /\ last.ret
            /\ Len(last.clicks) = 1 /\ last.clicks[1].target = t[1]
            /\ W[c].selected_index = Some(IndexOf(pre, pre[c].mouse_targets, t[1]))

\* C6: after a LEFT_CLICK that Container.handle_mouse forwarded to a child,
\* the next mouse event is forwarded to that child wherever it is.
C6_DragKeepsItsTarget ==
    [][(/\ last.op = "handle_mouse" /\ last.event.action = "LEFT_CLICK"
        /\ last.err = "" /\ last.forwarded # <<>>
        /\ last'.op = "handle_mouse" /\ last'.self = last.self)
       => (last'.forwarded # <<>> /\ last'.forwarded[1] = last.forwarded[1])]_vars

C8_ContainerRejectsOutOfRange ==
    LET n == selectables_length(pre, last.self)
    IN  (/\ last.op = "select" /\ IsContainer(pre, last.self) /\ last.index # None
         /\ (Val(last.index) < 0 \/ Val(last.index) >= n)) =>
            /\ last.err # ""
            /\ W[last.self].selected_index = pre[last.self].selected_index

\* C11: when Container.get_lines() returns, every MouseTarget of the
\* container's mouse_targets has start = (p.x + left - 1, p.y + 1 + top) and
\* end = (p.x + p.width - 1 - right, p.y + top + height), p being the
\* target's parent with the position and width it has at that moment.
C11_TargetsAdjusted ==
    Returned("get_lines") =>
        \A k \in 1 .. Len(W[last.self].mouse_targets) :
            LET ref == W[last.self].mouse_targets[k]
                t == Target(W, ref)
                p == W[ref.w]
            IN  /\ t.start = <<p.pos[1] + t.left - 1, p.pos[2] + 1 + t.top>>
                /\ t.end = <<p.pos[1] + p.width - 1 - t.right,
                             p.pos[2] + t.top + t.height>>

\* A get_lines() returned over a mouse target whose parent it gave another
\* width or position, so that the corners of the target changed.
C11_Witness ==
    /\ Returned("get_lines")
    /\ \E k \in 1 .. Len(W[last.self].mouse_targets) :
          LET ref == W[last.self].mouse_targets[k]
          IN  /\ <<W[ref.w].pos, W[ref.w].width>> # <<pre[ref.w].pos, pre[ref.w].width>>
              /\ <<Target(W, ref).start, Target(W, ref).end>>
                    # <<Target(pre, ref).start, Target(pre, ref).end>>

\* C12: when the terminal is resized, a Container whose stored centering
\* policy is ALL is given the position computed from the new terminal
\* dimensions, and its width and height are after the resize reaction what
\* they were before it.
C12_ResizeKeepsSize ==
    (last.op = "resize_notified" /\ last.err = "") =>
        \A c \in Containers(pre) :
            pre[c]._centered_axis = Some("ALL") =>
                /\ W[c].pos = <<(terminal_size[1] - W[c].width + 2) \div 2,
                                (terminal_size[2] - W[c].height + 2) \div 2>>
                /\ W[c].width = pre[c].width
                /\ W[c].height = pre[c].height

\* C13: print() on a Container that has a stored centering policy, the
\* terminal size differing from the size seen before, writes the lines at the
\* position that centering the container with that policy for the new size
\* gives, and that position is the container's when print() returns.
C13_PrintCentres ==
    (/\ last.op = "print" /\ last.err = ""
     /\ pre[last.self]._centered_axis # None
     /\ terminal_size # pre[last.self]._prev_screen) =>
        \E centred \in {Container_center(pre, last.self, pre[last.self]._centered_axis,
                                          TRUE).H[last.self].pos} :
            /\ last.at = centred
            /\ W[last.self].pos = centred

\* The places (container, position) of the child lists that hold widget w.
Places(H, w) ==
    {p \in UNION {{<<c, i>> : i \in 1 .. Len(H[c]._widgets)} : c \in Containers(H)} :
        H[p[1]]._widgets[p[2]] = w}

\* C14: after any sequence of add, set_widgets, item assignment, remove and
\* pop operations on any set of containers, every widget appears in the
\* child list of at most one container, and at most once in that list.
C14_ExclusiveOwnership ==
    \A w \in 1 .. Len(W) : Cardinality(Places(W, w)) <= 1

\* C15: a widget is constructed with a null id and no entry of the registry;
\* an assignment of another id to w leaves exactly one entry referring to
\* w, under the new id, which is w's id, and so none under the id w had; an
\* assignment of the id w has makes no deregister and no register call and
\* changes nothing; no assignment touches the entry of another widget under
\* another id.  After any sequence of assignments to w the registry thus
\* holds an entry referring to w exactly when w.id is not null.
C15_RenameKeepsRegistry ==
    /\ \A w \in 1 .. Len(W) : last.op = "init" =>
          (W[w]._id = None /\ Entries(_id_manager, w) = {})
    /\ [][last'.op = "id" =>
             IF W[last'.self]._id = last'.arg
             THEN /\ last'.calls = <<>>
                  /\ W' = W
                  /\ _id_manager' = _id_manager
             ELSE /\ W'[last'.self]._id = last'.arg
                  /\ Entries(_id_manager', last'.self)
                        = {[id |-> Val(last'.arg), widget |-> last'.self]}
                  /\ \A e \in _id_manager :
                        (e.widget # last'.self /\ e.id # Val(last'.arg))
                           => e \in _id_manager'
                  /\ \A e \in _id_manager' : e \in _id_manager \/ e.widget = last'.self
       ]_vars

\* A widget registered under an id was given another id: the old id was
\* deregistered, the new one registered, and the only entry referring to the
\* widget is under the new id.
C15_Witness ==
    /\ last.op = "id"
    /\ pre[last.self]._id # None /\ pre[last.self]._id # last.arg
    /\ last.calls = <<[call |-> "deregister", arg |-> pre[last.self]._id],
                      [call |-> "register", arg |-> last.arg]>>
    /\ Entries(_id_manager, last.self) = {[id |-> Val(last.arg), widget |-> last.self]}

\* C20: copy() of a widget that has a registered id returns a clone whose
\* id is null, so that no copy carries the id of the widget it was made of.
C20_CopyClearsId ==
    (last.op = "copy" /\ pre[last.self]._id # None) => W[Len(W)]._id = None

\* C16: bind(key, callback, description) on a widget whose type is not
\* bindable raises a type error and leaves the bindings, and the widget, as
\* they were; on a bindable widget it returns, the mapping then holds under
\* key the callback just given and no other, and the bindings of all other
\* keys, and everything else, are unchanged.
C16_BindLastWins ==
    last.op = "bind" =>
        IF ~pre[last.self].is_bindable
        THEN last.err = "TypeError" /\ W = pre
        ELSE /\ last.err = ""
             /\ Cardinality(Bound(W, last.self, last.key)) = 1
             /\ \A b \in Bound(W, last.self, last.key) : b.action = last.arg.action
             /\ \A key \in BoundKeys \ {last.key} :
                   Bound(W, last.self, key) = Bound(pre, last.self, key)
             /\ [W EXCEPT ![last.self]._bindings = pre[last.self]._bindings] = pre

\* A key bound to one callback was bound to another, while another key was
\* bound as well: the key has the new callback, the other key its own.
C16_Witness ==
    /\ last.op = "bind" /\ last.err = ""
    /\ \E b \in Bound(pre, last.self, last.key) : b.action # last.arg.action
    /\ \E b \in Bound(W, last.self, last.key) : b.action = last.arg.action
    /\ \E key \in BoundKeys \ {last.key} : Bound(W, last.self, key) # {}

\* C17: on a widget that has a wildcard (any-key) binding,
\* execute_binding(key) invokes the wildcard callback exactly once, for
\* every key, and before the callback of an exact binding for key.
C17_WildcardOnceAndFirst ==
    (last.op = "execute_binding" /\ Bound(pre, last.self, ANY_KEY) # {}) =>
        /\ Cardinality({i \in 1 .. Len(last.calls) : last.calls[i].binding = ANY_KEY}) = 1
        /\ last.calls[1].binding = ANY_KEY
        /\ \A b \in Bound(pre, last.self, ANY_KEY) : last.calls[1].method = b.action

\* C18: execute_binding(key) returns True exactly when a binding was found
\* and its callback executed during the call, and False exactly when no
\* bound callback was executed during the call.
C18_ReturnsWhetherExecuted ==
    last.op = "execute_binding" => (last.ret <=> last.calls # <<>>)

\* C19: MouseTarget.contains(p) is true exactly when start.x <= p.x <= end.x
\* and start.y <= p.y <= end.y; the corners and the edges of the rectangle
\* of every target are contained, and the points one cell outside an edge
\* are not.
C19_ContainsInclusive ==
    /\ last.op = "contains" =>
          (last.ret <=> \A k \in {1, 2} :
                           /\ Target(pre, last.arg).start[k] <= last.at[k]
                           /\ last.at[k] <= Target(pre, last.arg).end[k])
    /\ \A ref \in TargetRefs(W) :
          \A x \in Target(W, ref).start[1] .. Target(W, ref).end[1],
             y \in Target(W, ref).start[2] .. Target(W, ref).end[2] :
              /\ contains(W, ref, <<x, y>>)
              /\ ~contains(W, ref, <<Target(W, ref).start[1] - 1, y>>)
              /\ ~contains(W, ref, <<Target(W, ref).end[1] + 1, y>>)
              /\ ~contains(W, ref, <<x, Target(W, ref).start[2] - 1>>)
              /\ ~contains(W, ref, <<x, Target(W, ref).end[2] + 1>>)

\* contains was asked about the end corner of a rectangle more than one cell
\* wide and high, and returned True.
C19_Witness ==
    /\ last.op = "contains" /\ last.ret
    /\ last.at = Target(W, last.arg).end
    /\ Target(W, last.arg).start[1] < Target(W, last.arg).end[1]
    /\ Target(W, last.arg).start[2] < Target(W, last.arg).end[2]

\* C21: after Container.select(i) returns for a valid flat index i, the
\* container's selected_index is i, the widget at position i of the
\* flattened selectables list has the inner index of that position as its
\* selected_index, and every other selectable widget below the container has
\* selected_index null; after select(null) the container and every
\* selectable widget below it have selected_index null.
C21_SelectPropagates ==
    LET c == last.self
        list == selectables(pre, c)
    IN  (Returned("select") /\ IsContainer(pre, c)) =>
           /\ (last.index # None /\ 0 <= Val(last.index) /\ Val(last.index) < Len(list)) =>
                 /\ W[c].selected_index = last.index
                 /\ W[list[Val(last.index) + 1].widget].selected_index =
                       Some(list[Val(last.index) + 1].inner)
                 /\ \A w \in Below(W, c) \ {list[Val(last.index) + 1].widget} :
                       is_selectable(W, w) => W[w].selected_index = None
           /\ last.index = None =>
                 \A w \in {c} \cup Below(W, c) :
                    is_selectable(W, w) => W[w].selected_index = None

\* C22: a LEFT_CLICK that Container.handle_mouse handles on a target owned
\* by an immediate child B does not raise, and the widget the container
\* then reports as selected is B or a widget below B (stated here of the
\* children that are not containers, with no drag in progress).
C22_ClickSelectsOwner ==
    LET c == last.self
        t == get_target(pre, c, last.event.pos)
    IN  (/\ last.op = "handle_mouse" /\ last.event.action = "LEFT_CLICK"
         /\ pre[c]._drag_target = 0
         /\ t # <<>> /\ _get_widget(pre, c, t[1]) # 0
         /\ ~IsContainer(pre, _get_widget(pre, c, t[1]))) =>
            /\ last.err = ""
            /\ selected(W, c) = _get_widget(pre, c, t[1])

\* C23: after Container.handle_mouse has processed a RELEASE event, at a
\* position inside a mouse target or inside none, the container has no drag
\* target.
C23_ReleaseClearsDrag ==
    (last.op = "handle_mouse" /\ last.event.action = "RELEASE") =>
        W[last.self]._drag_target = 0

\* C24: when Container.handle_key returns False, the selected_index of the
\* container and of every widget below it is the same as before the call.
C24_UnhandledKeyKeepsSelection ==
    (Returned("handle_key") /\ ~last.ret) =>
        \A w \in {last.self} \cup Below(W, last.self) :
            W[w].selected_index = pre[w].selected_index

\* C25: after a layout pass of a container returns (get_lines(), or the
\* pass an addition runs), the horizontal position of every child is the
\* container's plus the offset its alignment gives to the width the child
\* has after the pass.
C25_OffsetFromResolvedWidth ==
    ((Returned("get_lines") \/ Returned("add")) /\ IsContainer(W, last.self)) =>
        \A i \in 1 .. Len(W[last.self]._widgets) :
            W[W[last.self]._widgets[i]].pos[1] =
                W[last.self].pos[1]
                  + _get_aligners(W, last.self, W[last.self]._widgets[i]).offset

\* C26: after add, remove, pop, set_widgets, select, handle_key and
\* handle_mouse calls on a container, the last of which returned, the
\* container's selected_index is null or lies in 0 .. selectables_length - 1.
C26_SelectionInRange ==
    (last.op # "init" /\ last.err = "" /\ IsContainer(W, last.self)) =>
        \/ W[last.self].selected_index = None
        \/ /\ 0 <= Val(W[last.self].selected_index)
           /\ Val(W[last.self].selected_index) < selectables_length(W, last.self)

C28_EnterClicksSelected ==
    LET c == last.self
        S == selected(pre, c)
    IN  (last.op = "handle_key" /\ last.key = ENTER) =>
           /\ (S > 0 /\ pre[S].selected_index # None) =>
                 /\ last.err = "" /\ last.ret
                 /\ InRange(pre[S].mouse_targets, Val(pre[S].selected_index))
                 /\ last.clicks =
                       <<[target |-> Item(pre[S].mouse_targets, Val(pre[S].selected_index)),
                          caller |-> c]>>
           /\ S = 0 => last.err = "" /\ ~last.ret /\ last.clicks = <<>>

\* C29: an addition whose layout pass raises leaves the container's child
\* list and height as they were before the attempt.
C29_FailedAddLeavesNoTrace ==
    Raised("add") =>
        /\ W[last.self]._widgets = pre[last.self]._widgets
        /\ W[last.self].height = pre[last.self].height

RECURSIVE LinesAbove(_, _, _)
\* The number of lines the children of c before child i give to a layout
\* pass: len(lines) when the pass positions child i.
LinesAbove(H, c, i) ==
    IF i <= 1 THEN 0
    ELSE LinesAbove(H, c, i - 1) + Len(get_lines(H, H[c]._widgets[i - 1]).lines)

\* C30: when Container.center() returns with a changed position, every
\* child is where the layout rule puts it relative to the new position
\* (container.x + offset, container.y + the lines above it, + 1 for a
\* container), and the corners of every mouse target of the container are
\* those its parent's position gives.
C30_CenterMovesChildren ==
    (Returned("center") /\ W[last.self].pos # pre[last.self].pos) =>
        /\ \A i \in 1 .. Len(W[last.self]._widgets) :
              W[W[last.self]._widgets[i]].pos =
                <<W[last.self].pos[1]
                    + _get_aligners(W, last.self, W[last.self]._widgets[i]).offset,
                  W[last.self].pos[2] + LinesAbove(W, last.self, i)
                    + (IF IsContainer(W, W[last.self]._widgets[i]) THEN 1 ELSE 0)>>
        /\ \A k \in 1 .. Len(W[last.self].mouse_targets) :
              adjust(W, W[last.self].mouse_targets[k]) = W

\* C32: after add, remove and pop operations, w.parent refers to container
\* C exactly when the child list of C holds w; after C.remove(w), or after
\* C.pop(i) returned w, w.parent no longer refers to C (stated here of the
\* widgets held in at most one place).
C32_ParentMatchesMembership ==
    (last.op \in {"add", "remove", "pop"} /\ last.err = "") =>
        \A w \in 1 .. Len(W) : \A c \in Containers(W) :
            Cardinality(Places(W, w)) <= 1 =>
                (W[w].parent = c <=> \E p \in Places(W, w) : p[1] = c)

\* The mouse targets of widget w that contain pos.
Hits(H, w, pos) ==
    {H[w].mouse_targets[i] : i \in {k \in 1 .. Len(H[w].mouse_targets) :
                                       contains(H, H[w].mouse_targets[k], pos)}}

\* Target a was defined before target b: the targets of a widget are defined
\* when it is constructed, in the order of their numbers, and the widgets
\* are numbered in the order of their construction.
DefinedBefore(a, b) == a.w < b.w \/ (a.w = b.w /\ a.j < b.j)

\* C31: when a point lies inside several mouse targets of a widget, a
\* Container after a layout pass included, get_target returns the target
\* that was defined last among them.
C31_LastDefinedWins ==
    (last.op = "get_target" /\ Hits(W, last.self, last.at) # {}) =>
        /\ last.arg # <<>>
        /\ last.arg[1] \in Hits(W, last.self, last.at)
        /\ \A t \in Hits(W, last.self, last.at) \ {last.arg[1]} :
              DefinedBefore(t, last.arg[1])

====
